---- MODULE Spec2Model ----
(***************************************************************************)
(* External tool invocation in vscode-go: go-symbols (goSymbol.ts),        *)
(* go-outline (goOutline.ts) and guru (goTypeDefinition.ts).  Every        *)
(* invocation spawns a process with execFile, arms a timeout timer,        *)
(* registers a cancellation listener and settles a promise from the exit   *)
(* callback or from the timer.  A behaviour follows one provider call and  *)
(* every process spawned on its behalf (Spec).  The calls of               *)
(* promptForMissingTool and promptForUpdatingTool (SpecInstall) and the    *)
(* test commands of goTest.ts (SpecTest) are followed in specifications    *)
(* of their own, and so is the chain of 'go get' and 'go build' processes  *)
(* of installTools (SpecChain) and the calls of offerToInstallTools         *)
(* (SpecOffer).                                                            *)
(***************************************************************************)
EXTENDS Integers, Sequences, FiniteSets, TLC

\* Bounds of the model.
MaxInv == 3      \* processes spawned in one behaviour
MaxPromptCalls == 2   \* promptForMissingTool / promptForUpdatingTool calls in one behaviour
MaxTestCalls == 2     \* test commands invoked in one behaviour
MaxTools == 2         \* tools passed to one installTools call
MaxOfferCalls == 3    \* offerToInstallTools calls in one behaviour

VARIABLES
    calls,      \* provider calls: kind, token, configuration, options object
    inv,        \* one record per execFile call (process, timer, listener, promise)
    gws,        \* one record per getWorkspaceSymbols call (Promise.all chain)
    cancelled,  \* calls whose cancellation token has fired
    prompts,    \* promptForMissingTool / promptForUpdatingTool calls made
    declinedInstalls,  \* tools the user has declined to install
    declinedUpdates,   \* tools the user has declined to update
    promptCalls,       \* one record per promptForMissingTool / promptForUpdatingTool call
    lastTestConfig,    \* the TestConfig of the last executed test
    testCalls,         \* one record per test command invoked
    goTestCalls,       \* the goTest calls made: their number, the last one, and
                       \* the last one made by a command other than testPrevious
    chain,             \* the installTools call: its promise chain, environment
                       \* object, temporary go.mod file, processes and output
    alreadyOfferedToInstallTools,  \* the module-level flag of offerToInstallTools
    offerCalls,        \* one record per offerToInstallTools call
    offered            \* what the calls of offerToInstallTools have done so far

toolVars == <<calls, inv, gws, cancelled, prompts>>
installVars == <<declinedInstalls, declinedUpdates, promptCalls>>
testVars == <<lastTestConfig, testCalls, goTestCalls>>
chainVars == <<chain>>
offerVars == <<alreadyOfferedToInstallTools, offerCalls, offered>>

vars == <<calls, inv, gws, cancelled, prompts, declinedInstalls, declinedUpdates,
          promptCalls, lastTestConfig, testCalls, goTestCalls, chain,
          alreadyOfferedToInstallTools, offerCalls, offered>>

----------------------------------------------------------------------------
\* Text produced by the tools.  stderr is a sequence of tokens so that
\* String.startsWith is a prefix test.

FlagPrefix == "flag provided but not defined: "
FlagIgnore == <<FlagPrefix, "-ignore">>
FlagImportsOnly == <<FlagPrefix, "-imports-only">>
FlagModified == <<FlagPrefix, "-modified">>
Boom == <<"exit status 1">>
Warning == <<"warning: ">>

StartsWith(s, prefix) ==
    /\ Len(s) >= Len(prefix)
    /\ SubSeq(s, 1, Len(prefix)) = prefix

EmptyArray == "[]"
OneDecl == "[{\"name\":\"Foo\"}]"
Garbage == "Foo"
GuruTypes == "{\"value\":{\"typespos\":[{\"objpos\":\"a.go:1:1\"}]}}"
GuruNoValue == "{\"desc\":\"x\"}"

\* JSON.parse: the decoded value, or a thrown SyntaxError.
JsonParse(s) ==
    CASE s = EmptyArray -> [ok |-> TRUE, data |-> <<>>]
      [] s = OneDecl -> [ok |-> TRUE, data |-> <<"Foo">>]
      [] s = GuruTypes -> [ok |-> TRUE, data |-> <<"a.go:1:1">>]
      [] s = GuruNoValue -> [ok |-> TRUE, data |-> <<>>]
      [] OTHER -> [ok |-> FALSE, data |-> <<>>]

\* guruOutput.value && guruOutput.value.typespos
HasTypespos(s) == s = GuruTypes

\* What execFile hands to its callback.
NoExit == [err |-> "none", stderr |-> <<>>, stdout |-> ""]
EnoentResult == [err |-> "ENOENT", stderr |-> <<>>, stdout |-> ""]
KilledResult == [err |-> "killed", stderr |-> <<>>, stdout |-> ""]

ExitResults(tool) ==
    CASE tool = "go-symbols" ->
            {[err |-> "none", stderr |-> <<>>, stdout |-> s] : s \in {OneDecl, Garbage}}
            \cup {[err |-> "fail", stderr |-> e, stdout |-> ""] : e \in {FlagIgnore, Boom}}
      [] tool = "go-outline" ->
            {[err |-> "none", stderr |-> <<>>, stdout |-> s] : s \in {OneDecl, Garbage}}
            \cup {[err |-> "none", stderr |-> Warning, stdout |-> EmptyArray]}
            \cup {[err |-> "fail", stderr |-> e, stdout |-> ""] :
                     e \in {FlagImportsOnly, FlagModified, Boom}}
      [] OTHER ->
            {[err |-> "none", stderr |-> <<>>, stdout |-> s] : s \in {GuruTypes, GuruNoValue, Garbage}}
            \cup {[err |-> "fail", stderr |-> Boom, stdout |-> ""]}

----------------------------------------------------------------------------
\* Promises.  A promise settles once; later resolve/reject calls are ignored.

Pending == [kind |-> "pending", data |-> <<>>]
Resolved(d) == [kind |-> "value", data |-> d]
ResolvedNull == [kind |-> "null", data |-> <<>>]
ResolvedUndefined == [kind |-> "undefined", data |-> <<>>]
Rejected(k, d) == [kind |-> k, data |-> d]

ValueKinds == {"value", "null", "undefined"}
FailureKinds == {"Timeout", "ExecError", "ENOENT", "Error", "SyntaxError", "Stderr", "NotAbsolute"}

SettleP(p, o) == IF p.kind = "pending" THEN o ELSE p

\* The err object execFile passes to its callback.
ErrOf(x) ==
    IF x.err = "ENOENT"
    THEN Rejected("ENOENT", <<"spawn ENOENT">>)
    ELSE Rejected("ExecError", <<"Command failed: ">> \o x.stderr)

----------------------------------------------------------------------------
\* Arguments.

WorkspacePath == "/ws"
GoRoot == "/goroot"
Query == "Foo"
FileName == "a.go"

\* ignoreFolders.join(',')
Join(folders) ==
    CASE folders = <<"vendor">> -> "vendor"
      [] folders = <<"vendor", "node_modules">> -> "vendor,node_modules"
      [] OTHER -> ""

IgnoreFolderLists == {<<>>, <<"vendor", "node_modules">>}

BaseArgsKeepsIgnore(ignoreFolderFeatureOn, ignoreFolders) ==
    IF Len(ignoreFolders) > 0
    THEN <<"-ignore", Join(ignoreFolders)>>
    ELSE <<>>

BaseArgs(ignoreFolderFeatureOn, ignoreFolders) ==
    IF ignoreFolderFeatureOn /\ Len(ignoreFolders) > 0
    THEN <<"-ignore", Join(ignoreFolders)>>
    ELSE <<>>

GoOutlineFlagsWithoutModified(opts) ==
    <<"-f", FileName>>
    \o (IF opts.importsOption = "Only" THEN <<"-imports-only">> ELSE <<>>)

\* gooutlineFlags
GoOutlineFlags(opts) ==
    <<"-f", FileName>>
    \o (IF opts.importsOption = "Only" THEN <<"-imports-only">> ELSE <<>>)
    \o (IF opts.document = "doc" THEN <<"-modified">> ELSE <<>>)

----------------------------------------------------------------------------
\* The state the handlers read and write, as one record.

St == [calls |-> calls, inv |-> inv, gws |-> gws, prompts |-> prompts]

\* token.onCancellationRequested(listener): a token that has already fired
\* schedules the listener instead of keeping it.
RegisterListener(S, c) ==
    IF ~S.calls[c].token THEN "none"
    ELSE IF c \in cancelled THEN "shortcut" ELSE "on"

\* cp.execFile plus the timer and listener set up around it.  The spawn
\* fails with ENOENT when the binary of the call's tool is not there.  A
\* supplied document is written to the stdin of a process that has a pid.
ExecFile(S, tool, c, owner, args, document) ==
    [tool |-> tool, call |-> c, owner |-> owner, args |-> args,
     pid |-> S.calls[c].installed, pnull |-> FALSE,
     proc |-> IF S.calls[c].installed THEN "running" ELSE "enoent",
     exit |-> IF S.calls[c].installed THEN NoExit ELSE EnoentResult,
     cb |-> "pending", timer |-> "armed",
     listener |-> RegisterListener(S, c),
     promise |-> Pending, settles |-> 0,
     kills |-> <<>>, faults |-> 0,
     document |-> document,
     stdin |-> IF document = "doc" /\ S.calls[c].installed THEN 1 ELSE 0,
     fallback |-> "none"]

\* killTree(p.pid)
KillTree(r, by) ==
    [r EXCEPT !.kills = Append(@, [by |-> by, pid |-> r.pid]),
              !.proc = IF @ = "running" THEN "killed" ELSE @,
              !.exit = IF r.proc = "running" THEN KilledResult ELSE @]

ClearTimeoutKeepsArmed(r) == r

\* clearTimeout(processTimeout)
ClearTimeout(r) == [r EXCEPT !.timer = IF @ = "armed" THEN "cleared" ELSE @]

CancelListenerKeepsTimer(r) ==
    LET r1 == [r EXCEPT !.listener = "ran"]
    IN  IF r1.pnull
        THEN [r1 EXCEPT !.faults = @ + 1]
        ELSE KillTree(r1, "cancel")

\* The listener passed to token.onCancellationRequested.
CancelListener(r) ==
    LET r1 == [ClearTimeout(r) EXCEPT !.listener = "ran"]
    IN  IF r1.pnull
        THEN [r1 EXCEPT !.faults = @ + 1]
        ELSE KillTree(r1, "cancel")

TimeoutWithoutKill(r) == [r EXCEPT !.timer = "fired"]

\* The body of the setTimeout callback up to its reject.
TimeoutKill(r) == KillTree([r EXCEPT !.timer = "fired"], "timer")

TimeoutError(tool) == Rejected("Timeout", <<"Timeout executing tool - ", tool>>)

----------------------------------------------------------------------------
\* goSymbol.ts

CallGoSymbols(S, c, g, args) ==
    [S EXCEPT !.inv = Append(@, ExecFile(S, "go-symbols", c, g, args, "undefined"))]

\* getWorkspaceSymbols up to the Promise.all: one or two callGoSymbols.
GetWorkspaceSymbols(S, c, ignoreFolderFeatureOn, parent) ==
    LET cfg == S.calls[c]
        baseArgs == BaseArgs(ignoreFolderFeatureOn, cfg.ignoreFolders)
        g == Len(S.gws) + 1
        n == Len(S.inv)
        S1 == CallGoSymbols(S, c, g, baseArgs \o <<WorkspacePath, Query>>)
        S2 == IF cfg.includeGoroot
              THEN CallGoSymbols(S1, c, g, baseArgs \o <<GoRoot, Query>>)
              ELSE S1
    IN  [S2 EXCEPT !.gws = Append(@,
            [call |-> c, ignoreOn |-> ignoreFolderFeatureOn, parent |-> parent,
             invs |-> IF cfg.includeGoroot THEN <<n + 1, n + 2>> ELSE <<n + 1>>,
             all |-> "pending", first |-> 0, retry |-> 0, promise |-> Pending])]

\* A getWorkspaceSymbols promise resolves; a promise returned from the catch
\* handler of the caller adopts it.
RECURSIVE ResolveGws(_, _, _)
ResolveGws(S, g, o) ==
    LET S1 == [S EXCEPT !.gws[g].promise = SettleP(@, o)]
    IN  IF S.gws[g].parent # 0 THEN ResolveGws(S1, S.gws[g].parent, o) ELSE S1

\* [].concat(...results)
RECURSIVE ConcatResults(_, _)
ConcatResults(S, ids) ==
    IF ids = <<>> THEN <<>>
    ELSE S.inv[Head(ids)].promise.data \o ConcatResults(S, Tail(ids))

\* The .catch handler of getWorkspaceSymbols.
GwsCatch(S, g, err) ==
    LET S1 == IF err.kind = "ENOENT"
              THEN [S EXCEPT !.prompts = @ \cup {[kind |-> "missing", tool |-> "go-symbols"]}]
              ELSE S
    IN  IF StartsWith(err.data, FlagIgnore)
        THEN LET S2 == [S1 EXCEPT !.prompts = @ \cup {[kind |-> "update", tool |-> "go-symbols"]},
                                  !.gws[g].retry = Len(S.gws) + 1]
             IN  GetWorkspaceSymbols(S2, S.gws[g].call, FALSE, g)
        ELSE ResolveGws(S1, g, ResolvedUndefined)

PromiseAllKillsOthers(S, i) ==
    LET g == S.inv[i].owner
        o == S.inv[i].promise
        K == [S EXCEPT !.inv = [j \in DOMAIN S.inv |->
                 IF j # i /\ S.inv[j].owner = g /\ S.inv[j].cb = "pending"
                 THEN KillTree(ClearTimeout(S.inv[j]), "sibling")
                 ELSE S.inv[j]]]
    IN  IF S.gws[g].all # "pending" THEN S
        ELSE IF o.kind \in FailureKinds
        THEN GwsCatch([K EXCEPT !.gws[g].all = "rejected", !.gws[g].first = i],
                      g, o)
        ELSE IF \A k \in 1..Len(S.gws[g].invs) : S.inv[S.gws[g].invs[k]].promise.kind \in ValueKinds
        THEN ResolveGws([S EXCEPT !.gws[g].all = "resolved"], g,
                        Resolved(ConcatResults(S, S.gws[g].invs)))
        ELSE S

\* Promise.all(calls) reacting to the settlement of call i.
PromiseAll(S, i) ==
    LET g == S.inv[i].owner
        o == S.inv[i].promise
    IN  IF S.gws[g].all # "pending" THEN S
        ELSE IF o.kind \in FailureKinds
        THEN GwsCatch([S EXCEPT !.gws[g].all = "rejected", !.gws[g].first = i],
                      g, o)
        ELSE IF \A k \in 1..Len(S.gws[g].invs) : S.inv[S.gws[g].invs[k]].promise.kind \in ValueKinds
        THEN ResolveGws([S EXCEPT !.gws[g].all = "resolved"], g,
                        Resolved(ConcatResults(S, S.gws[g].invs)))
        ELSE S

----------------------------------------------------------------------------
\* goOutline.ts

\* runGoOutline up to the return of its executor.
RunGoOutline(S, c, parent) ==
    LET opts == S.calls[c].opts
    IN  [S EXCEPT !.inv = Append(@,
            ExecFile(S, "go-outline", c, parent, GoOutlineFlags(opts), opts.document))]

----------------------------------------------------------------------------
\* resolve(o) or reject(o) of the promise of invocation i, with the
\* reactions that run before the next event.
RECURSIVE SettleInv(_, _, _)
SettleInv(S, i, o) ==
    LET r == S.inv[i]
        S1 == [S EXCEPT !.inv[i].promise = SettleP(@, o), !.inv[i].settles = @ + 1]
    IN  IF r.promise.kind # "pending" THEN S1
        ELSE IF r.tool = "go-symbols" THEN PromiseAll(S1, i)
        ELSE IF r.tool = "go-outline" /\ r.owner # 0 /\ o.kind \in ValueKinds
        THEN SettleInv(S1, r.owner, o)
        ELSE S1

\* The execFile callback of callGoSymbols.
GoSymbolsCallback(S, i, x) ==
    LET S0 == [S EXCEPT !.inv[i] = [ClearTimeout(@) EXCEPT !.cb = "done", !.exit = x]]
    IN  IF x.err # "none" /\ x.stderr # <<>> /\ StartsWith(x.stderr, FlagIgnore)
        THEN SettleInv(S0, i, Rejected("Error", x.stderr))
        ELSE IF x.err # "none"
        THEN SettleInv(S0, i, ErrOf(x))
        ELSE IF JsonParse(x.stdout).ok
        THEN SettleInv(S0, i, Resolved(JsonParse(x.stdout).data))
        ELSE [S0 EXCEPT !.inv[i].cb = "threw"]

\* The execFile callback of runGoOutline.
GoOutlineCallback(S, i, x) ==
    LET c == S.inv[i].call
        S0 == [S EXCEPT !.inv[i] = [ClearTimeout(@) EXCEPT !.cb = "done", !.exit = x]]
        S1 == IF x.err = "ENOENT"
              THEN [S0 EXCEPT !.prompts = @ \cup {[kind |-> "missing", tool |-> "go-outline"]}]
              ELSE S0
    IN  IF x.stderr # <<>> /\ StartsWith(x.stderr, <<FlagPrefix>>)
        THEN LET S2 == [S1 EXCEPT
                        !.prompts = @ \cup {[kind |-> "update", tool |-> "go-outline"]},
                        !.calls[c].opts.importsOption =
                            IF StartsWith(x.stderr, FlagImportsOnly) THEN "Include" ELSE @,
                        !.calls[c].opts.document =
                            IF StartsWith(x.stderr, FlagModified) THEN "null" ELSE @,
                        !.inv[i].pnull = TRUE]
             IN  RunGoOutline(S2, c, i)
        ELSE IF x.err # "none"
        THEN SettleInv(S1, i, ResolvedNull)
        ELSE IF JsonParse(x.stdout).ok
        THEN SettleInv(S1, i, Resolved(JsonParse(x.stdout).data))
        ELSE SettleInv(S1, i, Rejected("SyntaxError", <<"Unexpected token">>))

\* The execFile callback of provideTypeDefinition.  Its third parameter is
\* the stderr text, which has no code property.
GuruCallback(S, i, x) ==
    LET S0 == [S EXCEPT !.inv[i] = [ClearTimeout(@) EXCEPT !.cb = "done", !.exit = x]]
    IN  IF x.stderr # <<>>
        THEN SettleInv(S0, i, Rejected("Stderr", x.stderr))
        ELSE IF ~JsonParse(x.stdout).ok
        THEN SettleInv(S0, i, Rejected("SyntaxError", <<"Unexpected token">>))
        ELSE IF ~HasTypespos(x.stdout)
        THEN [S0 EXCEPT !.inv[i].fallback = "pending"]
        ELSE SettleInv(S0, i, Resolved(JsonParse(x.stdout).data))

\* The handlers passed to definitionLocation(...).then in the fallback.
DefinitionFallback(S, i, d) ==
    LET S0 == [S EXCEPT !.inv[i].fallback = "done"]
    IN  CASE d = "found" -> SettleInv(S0, i, Resolved(<<"decl.go:1:1">>))
          [] d = "missing" ->
                [S0 EXCEPT !.prompts = @ \cup {[kind |-> "missing", tool |-> "godef"]}]
          [] OTHER -> S0

----------------------------------------------------------------------------
\* Actions.

\* The handler's result becomes the next state; a handler that would spawn
\* beyond the bound of the model is not taken.
Apply(S) ==
    \E T \in {S} :
        /\ Len(T.inv) <= MaxInv
        /\ calls' = T.calls
        /\ inv' = T.inv
        /\ gws' = T.gws
        /\ prompts' = T.prompts

NewCall(kind, tok, includeGoroot, folders, opts, early, installed) ==
    [kind |-> kind, token |-> tok, includeGoroot |-> includeGoroot,
     ignoreFolders |-> folders, opts |-> opts, early |-> early,
     installed |-> installed]

NoOpts == [importsOption |-> "Include", document |-> "undefined"]

\* let lastTestConfig: TestConfig, before any assignment.
UnsetConfig == [unset |-> TRUE]

NoGoTest == [by |-> "none", config |-> UnsetConfig]

\* Before offerToInstallTools is called.
NothingOffered == [checks |-> 0, statusItems |-> 0, commands |-> 0, prompts |-> 0]

\* Before installTools is called.
NoChain ==
    [pc |-> "none", missing |-> <<>>, goVersion |-> "1.12", env |-> "unset",
     goMod |-> FALSE, sofar |-> <<>>, steps |-> <<>>, procs |-> <<>>,
     out |-> "none", failed |-> 0, restarted |-> FALSE]

Init ==
    /\ calls = <<>>
    /\ inv = <<>>
    /\ gws = <<>>
    /\ cancelled = {}
    /\ prompts = {}
    /\ declinedInstalls = <<>>
    /\ declinedUpdates = <<>>
    /\ promptCalls = <<>>
    /\ lastTestConfig = UnsetConfig
    /\ testCalls = <<>>
    /\ goTestCalls = [count |-> 0, last |-> NoGoTest, lastByCommand |-> NoGoTest]
    /\ chain = NoChain
    /\ alreadyOfferedToInstallTools = FALSE
    /\ offerCalls = <<>>
    /\ offered = NothingOffered

\* GoWorkspaceSymbolProvider.provideWorkspaceSymbols with a workspace open.
ProvideWorkspaceSymbols(tok, includeGoroot, folders, spawnOk) ==
    /\ calls = <<>>
    /\ LET c == Len(calls) + 1
           S == [St EXCEPT !.calls = Append(@,
                    NewCall("symbols", tok, includeGoroot, folders, NoOpts, "none", spawnOk))]
       IN  Apply(GetWorkspaceSymbols(S, c, TRUE, 0))
    /\ UNCHANGED <<cancelled, installVars, testVars, chainVars, offerVars>>

\* A caller of runGoOutline (documentSymbols and the import commands).
DocumentSymbols(tok, opts, spawnOk) ==
    /\ calls = <<>>
    /\ LET c == Len(calls) + 1
           S == [St EXCEPT !.calls = Append(@,
                    NewCall("outline", tok, FALSE, <<>>, opts, "none", spawnOk))]
       IN  Apply(RunGoOutline(S, c, 0))
    /\ UNCHANGED <<cancelled, installVars, testVars, chainVars, offerVars>>

\* GoTypeDefinitionProvider.provideTypeDefinition up to the return of the
\* promise executor.
ProvideTypeDefinition(early, spawnOk) ==
    /\ calls = <<>>
    /\ LET c == Len(calls) + 1
           S == [St EXCEPT !.calls = Append(@,
                    NewCall("guru", TRUE, FALSE, <<>>, NoOpts, early, spawnOk))]
       IN  CASE early = "noWord" -> Apply(S)
             [] early = "notAbsolute" ->
                   Apply([S EXCEPT !.prompts = @ \cup {[kind |-> "missing", tool |-> "guru"]}])
             [] OTHER ->
                   Apply([S EXCEPT !.inv = Append(@,
                       ExecFile(S, "guru", c, 0,
                                <<"-json", "-modified", "describe", FileName>>,
                                "doc"))])
    /\ UNCHANGED <<cancelled, installVars, testVars, chainVars, offerVars>>

\* A failed spawn reports ENOENT to the execFile callback on the next tick,
\* before any timer, process or cancellation event is handled.
TickPending(r) == r.proc = "enoent" /\ r.cb = "pending"

NoTickPending == \A i \in DOMAIN inv : ~TickPending(inv[i])

\* The tool process ends by itself.
ProcessExit(i) ==
    /\ NoTickPending
    /\ inv[i].proc = "running"
    /\ inv' = [inv EXCEPT ![i].proc = "exited"]
    /\ UNCHANGED <<calls, gws, cancelled, prompts, installVars, testVars, chainVars, offerVars>>

\* What the execFile callback of invocation r can be called with.
CallbackArgs(r) ==
    IF r.proc = "exited" THEN ExitResults(r.tool)
    ELSE IF r.proc = "running" THEN {}
    ELSE {r.exit}

\* The execFile callback runs with the error, stdout and stderr x of the
\* ended process.
ExecFileCallback(i, x) ==
    /\ TickPending(inv[i]) \/ NoTickPending
    /\ inv[i].proc # "running"
    /\ inv[i].cb = "pending"
    /\ x \in CallbackArgs(inv[i])
    /\ CASE inv[i].tool = "go-symbols" -> Apply(GoSymbolsCallback(St, i, x))
         [] inv[i].tool = "go-outline" -> Apply(GoOutlineCallback(St, i, x))
         [] OTHER -> Apply(GuruCallback(St, i, x))
    /\ UNCHANGED <<cancelled, installVars, testVars, chainVars, offerVars>>

\* The setTimeout callback runs.
TimeoutHandler(i) ==
    /\ NoTickPending
    /\ inv[i].timer = "armed"
    /\ Apply(SettleInv([St EXCEPT !.inv[i] = TimeoutKill(@)], i,
                       TimeoutError(inv[i].tool)))
    /\ UNCHANGED <<cancelled, installVars, testVars, chainVars, offerVars>>

\* The cancellation token of call c fires: every listener registered on it
\* runs, in registration order.
CancellationRequested(c) ==
    /\ NoTickPending
    /\ calls[c].token
    /\ c \notin cancelled
    /\ cancelled' = cancelled \cup {c}
    /\ inv' = [i \in DOMAIN inv |->
                 IF inv[i].call = c /\ inv[i].listener = "on"
                 THEN CancelListener(inv[i])
                 ELSE inv[i]]
    /\ UNCHANGED <<calls, gws, prompts, installVars, testVars, chainVars, offerVars>>

\* A listener registered on an already cancelled token runs.
ShortcutListener(i) ==
    /\ NoTickPending
    /\ inv[i].listener = "shortcut"
    /\ inv' = [inv EXCEPT ![i] = CancelListener(@)]
    /\ UNCHANGED <<calls, gws, cancelled, prompts, installVars, testVars, chainVars, offerVars>>

\* definitionLocation settles in the fallback of provideTypeDefinition.
DefinitionLocationSettles(i, d) ==
    /\ NoTickPending
    /\ inv[i].fallback = "pending"
    /\ Apply(DefinitionFallback(St, i, d))
    /\ UNCHANGED <<cancelled, installVars, testVars, chainVars, offerVars>>

OutlineOptions ==
    [importsOption : {"Include", "Only"}, document : {"doc", "undefined"}]

Next ==
    \/ \E tok \in BOOLEAN, g \in BOOLEAN, f \in IgnoreFolderLists, ok \in BOOLEAN :
          ProvideWorkspaceSymbols(tok, g, f, ok)
    \/ \E tok \in BOOLEAN, o \in OutlineOptions, ok \in BOOLEAN :
          DocumentSymbols(tok, o, ok)
    \/ \E e \in {"none", "noWord", "notAbsolute"}, ok \in BOOLEAN :
          ProvideTypeDefinition(e, ok)
    \/ \E i \in DOMAIN inv : ProcessExit(i)
    \/ \E i \in DOMAIN inv : \E x \in CallbackArgs(inv[i]) : ExecFileCallback(i, x)
    \/ \E i \in DOMAIN inv : TimeoutHandler(i)
    \/ \E c \in DOMAIN calls : CancellationRequested(c)
    \/ \E i \in DOMAIN inv : ShortcutListener(i)
    \/ \E i \in DOMAIN inv, d \in {"found", "none", "missing", "error"} :
          DefinitionLocationSettles(i, d)

Spec == Init /\ [][Next]_vars

----------------------------------------------------------------------------
\* promptForMissingTool and promptForUpdatingTool.  Every await is a point
\* where other calls may run.

Tools == {"go-outline", "gopls"}

\* Tool.isImportant
IsImportant(tool) == tool = "go-outline"

\* containsTool(tools, tool)
ContainsTool(tools, tool) == \E n \in 1..Len(tools) : tools[n] = tool

MissingToolDeclinedInUpdates(tool) == ContainsTool(declinedUpdates, tool)

\* containsTool(declinedInstalls, tool) at the head of promptForMissingTool
MissingToolDeclined(tool) == ContainsTool(declinedInstalls, tool)

\* containsTool(declinedUpdates, tool) at the head of promptForUpdatingTool
UpdatingToolDeclined(tool) == ContainsTool(declinedUpdates, tool)

\* The user has dismissed a prompt of function fn for the tool.
DismissedBefore(fn, tool) ==
    \E k \in DOMAIN promptCalls :
        /\ promptCalls[k].fn = fn
        /\ promptCalls[k].tool = tool
        /\ promptCalls[k].answer = "dismissed"

NewPromptCall(fn, tool, declined) ==
    [fn |-> fn, tool |-> tool,
     pc |-> IF declined THEN "done" ELSE "getGoVersion",
     afterDismissal |-> DismissedBefore(fn, tool),
     shown |-> FALSE, message |-> FALSE, options |-> {}, missing |-> {},
     installs |-> {}, answer |-> "none"]

\* promptForMissingTool(toolName) up to its first await.
PromptForMissingTool(tool) ==
    /\ Len(promptCalls) < MaxPromptCalls
    /\ promptCalls' = Append(promptCalls,
                             NewPromptCall("missing", tool, MissingToolDeclined(tool)))
    /\ UNCHANGED <<declinedInstalls, declinedUpdates, toolVars, testVars, chainVars, offerVars>>

\* promptForUpdatingTool(toolName) up to its first await.
PromptForUpdatingTool(tool) ==
    /\ Len(promptCalls) < MaxPromptCalls
    /\ promptCalls' = Append(promptCalls,
                             NewPromptCall("updating", tool, UpdatingToolDeclined(tool)))
    /\ UNCHANGED <<declinedInstalls, declinedUpdates, toolVars, testVars, chainVars, offerVars>>

\* getGoVersion() resolves: the version checks of promptForMissingTool, or
\* the update prompt of promptForUpdatingTool.
GoVersionResolved(k, versionOk) ==
    /\ promptCalls[k].pc = "getGoVersion"
    /\ LET r == promptCalls[k]
       IN  promptCalls' = [promptCalls EXCEPT ![k] =
             IF r.fn = "missing"
             THEN IF versionOk
                  THEN [r EXCEPT !.pc = "getMissingTools"]
                  ELSE [r EXCEPT !.pc = "done", !.message = TRUE]
             ELSE [r EXCEPT !.pc = "prompt", !.shown = TRUE,
                            !.options = {"Update"} \cup
                                (IF r.tool = "gopls" THEN {"Release Notes"} ELSE {})]]
    /\ UNCHANGED <<declinedInstalls, declinedUpdates, toolVars, testVars, chainVars, offerVars>>

\* getMissingTools(goVersion) resolves in promptForMissingTool.
MissingToolsResolved(k, missing) ==
    /\ promptCalls[k].pc = "getMissingTools"
    /\ LET r == promptCalls[k]
           filtered == {x \in missing : x = r.tool \/ IsImportant(r.tool)}
       IN  promptCalls' = [promptCalls EXCEPT ![k] =
             IF r.tool \notin missing
             THEN [r EXCEPT !.pc = "done"]
             ELSE [r EXCEPT !.pc = "prompt", !.shown = TRUE, !.missing = filtered,
                            !.options = {"Install"} \cup
                                (IF Cardinality(filtered) > 1 THEN {"Install All"} ELSE {})]]
    /\ UNCHANGED <<declinedInstalls, declinedUpdates, toolVars, testVars, chainVars, offerVars>>

\* showInformationMessage resolves with the user's choice, or with undefined
\* when the prompt is dismissed.
PromptAnswered(k, selected) ==
    /\ promptCalls[k].pc = "prompt"
    /\ selected \in promptCalls[k].options \cup {"dismissed"}
    /\ LET r == promptCalls[k]
       IN  promptCalls' = [promptCalls EXCEPT ![k] =
             CASE selected \in {"Install", "Update"} ->
                     [r EXCEPT !.pc = "installTools", !.answer = selected,
                               !.installs = {r.tool}]
               [] selected = "Install All" ->
                     [r EXCEPT !.pc = "installTools", !.answer = selected,
                               !.installs = r.missing]
               [] OTHER ->
                     [r EXCEPT !.pc = "done", !.answer = selected]]
    /\ declinedInstalls' =
          IF selected = "dismissed" /\ promptCalls[k].fn = "missing"
          THEN Append(declinedInstalls, promptCalls[k].tool)
          ELSE declinedInstalls
    /\ declinedUpdates' =
          IF selected = "dismissed" /\ promptCalls[k].fn = "updating"
          THEN Append(declinedUpdates, promptCalls[k].tool)
          ELSE declinedUpdates
    /\ UNCHANGED <<toolVars, testVars, chainVars, offerVars>>

\* installTools(...) resolves.
InstallToolsDone(k) ==
    /\ promptCalls[k].pc = "installTools"
    /\ promptCalls' = [promptCalls EXCEPT ![k].pc = "done"]
    /\ UNCHANGED <<declinedInstalls, declinedUpdates, toolVars, testVars, chainVars, offerVars>>

NextInstall ==
    \/ \E t \in Tools : PromptForMissingTool(t)
    \/ \E t \in Tools : PromptForUpdatingTool(t)
    \/ \E k \in DOMAIN promptCalls, ok \in BOOLEAN : GoVersionResolved(k, ok)
    \/ \E k \in DOMAIN promptCalls, m \in SUBSET Tools : MissingToolsResolved(k, m)
    \/ \E k \in DOMAIN promptCalls :
          \E sel \in {"Install", "Install All", "Update", "Release Notes", "dismissed"} :
              PromptAnswered(k, sel)
    \/ \E k \in DOMAIN promptCalls : InstallToolsDone(k)

SpecInstall == Init /\ [][NextInstall]_vars

----------------------------------------------------------------------------
\* goTest.ts: the test commands.  document.save(), getFunctions(...) and
\* goTest(...) settle in steps of their own.

\* The configurations: coverage is switched on for one of the two commands
\* that read a cover setting.
GoConfigs == {[coverOnSingleTest |-> b, coverOnTestPackage |-> ~b, testFlags |-> <<"-v">>] :
                 b \in BOOLEAN}

\* testCurrentFile and testWorkspace read no cover setting.
PlainGoConfigs == {c \in GoConfigs : c.coverOnSingleTest}

Editors == {"none", "pkg/a_test.go", "pkg/a.go"}

\* fileName.endsWith('_test.go')
IsTestFile(fileName) == fileName = "pkg/a_test.go"

\* path.dirname(fileName)
Dirname(fileName) == IF fileName \in {"pkg/a_test.go", "pkg/a.go"} THEN "pkg" ELSE "."

\* getTestFlags(goConfig, args)
GetTestFlags(goConfig, args) == goConfig.testFlags

TmpCoverPath == "/tmp/go-code-cover"

MakeCoverDataAlways(goConfig, confFlag, args) ==
    [tmpCoverPath |-> TmpCoverPath,
     testFlags |-> Append(GetTestFlags(goConfig, args), "-coverprofile=" \o TmpCoverPath)]

\* makeCoverData(goConfig, confFlag, args)
MakeCoverData(goConfig, confFlag, args) ==
    IF goConfig[confFlag]
    THEN [tmpCoverPath |-> TmpCoverPath,
          testFlags |-> Append(GetTestFlags(goConfig, args), "-coverprofile=" \o TmpCoverPath)]
    ELSE [tmpCoverPath |-> "", testFlags |-> GetTestFlags(goConfig, args)]

\* What getTestFunctions / getBenchmarkFunctions can resolve with: the
\* functions of the document, each with whether its range contains the
\* cursor and whether it calls suite.Run.
Fn(name, atCursor, suiteRun) == [name |-> name, atCursor |-> atCursor, suiteRun |-> suiteRun]

FunctionLists ==
    {<<Fn("TestFoo", FALSE, FALSE)>>,
     <<Fn("TestSuite", FALSE, TRUE), Fn("(*S).TestBar", TRUE, FALSE)>>}

\* extractInstanceTestName(symbolName)
ExtractInstanceTestName(name) == name = "(*S).TestBar"

\* findAllTestSuiteRuns(doc, allTests)
FindAllTestSuiteRuns(fns) == SelectSeq(fns, LAMBDA f : f.suiteRun)

RECURSIVE Names(_)
Names(fns) == IF fns = <<>> THEN <<>> ELSE <<Head(fns).name>> \o Names(Tail(fns))

\* The first function whose range contains the start of the selection.
RECURSIVE FunctionAtCursor(_)
FunctionAtCursor(fns) ==
    IF fns = <<>> THEN ""
    ELSE IF Head(fns).atCursor THEN Head(fns).name
    ELSE FunctionAtCursor(Tail(fns))

Ts == [lastTestConfig |-> lastTestConfig, testCalls |-> testCalls,
       goTestCalls |-> goTestCalls]

ApplyTest(T) ==
    /\ lastTestConfig' = T.lastTestConfig
    /\ testCalls' = T.testCalls
    /\ goTestCalls' = T.goTestCalls
    /\ UNCHANGED <<toolVars, installVars, chainVars, offerVars>>

NewTestCall(cmd, goConfig, isBenchmark, editor, functionName) ==
    [cmd |-> cmd, goConfig |-> goConfig, isBenchmark |-> isBenchmark,
     editor |-> editor, functionName |-> functionName,
     pc |-> "done", message |-> "", tmpCoverPath |-> "", testFlags |-> <<>>,
     success |-> FALSE, coverage |-> "", logged |-> FALSE]

\* The record of a call that has returned: its locals are gone.
Returned(r) ==
    [NewTestCall(r.cmd, [none |-> TRUE], FALSE, "none", "") EXCEPT
        !.message = r.message, !.success = r.success, !.coverage = r.coverage,
        !.logged = r.logged]

ShowMessageAndForget(T, r, msg) ==
    [T EXCEPT !.testCalls = Append(@, Returned([r EXCEPT !.message = msg])),
              !.lastTestConfig = UnsetConfig]

\* A command returns after showing a message.
ShowMessage(T, r, msg) ==
    [T EXCEPT !.testCalls = Append(@, Returned([r EXCEPT !.message = msg]))]

NoEditor == "No editor is active."
NotTestFile == "No tests found. Current file is not a test file."
NoFunction == "No test function found at cursor."
NoWorkspace == "No workspace is open to run tests."
NoRecentTest == "No test has been recently executed."

\* The record of a call waiting for its goTest promise: of its locals only
\* tmpCoverPath is still read.
Running(r) ==
    [NewTestCall(r.cmd, [none |-> TRUE], FALSE, "none", "") EXCEPT
        !.pc = "goTest", !.tmpCoverPath = r.tmpCoverPath]

\* goTest(testConfig), called by command k.
GoTest(T, k, cmd, testConfig) ==
    LET run == [by |-> cmd, config |-> testConfig]
    IN  [T EXCEPT !.goTestCalls =
                      [count |-> @.count + 1, last |-> run,
                       lastByCommand |-> IF cmd = "testPrevious" THEN @.lastByCommand ELSE run],
                  !.testCalls[k] = Running(@)]

RunWithoutRemembering(T, k, cmd, testConfig) == GoTest(T, k, cmd, testConfig)

\* lastTestConfig = testConfig; goTest(testConfig)
RememberAndRun(T, k, cmd, testConfig) ==
    GoTest([T EXCEPT !.lastTestConfig = testConfig], k, cmd, testConfig)

\* testAtCursor up to editor.document.save().
TestAtCursor(goConfig, isBenchmark, editor, functionName) ==
    /\ Len(testCalls) < MaxTestCalls
    /\ LET r == NewTestCall("testAtCursor", goConfig, isBenchmark, editor, functionName)
           cover == MakeCoverData(goConfig, "coverOnSingleTest", functionName)
       IN  IF editor = "none" THEN ApplyTest(ShowMessage(Ts, r, NoEditor))
           ELSE IF ~IsTestFile(editor) THEN ApplyTest(ShowMessage(Ts, r, NotTestFile))
           ELSE ApplyTest([Ts EXCEPT !.testCalls = Append(@,
                    [r EXCEPT !.pc = "save", !.tmpCoverPath = cover.tmpCoverPath,
                              !.testFlags = cover.testFlags])])

\* testCurrentFile up to editor.document.save().
TestCurrentFile(goConfig, isBenchmark, editor) ==
    /\ Len(testCalls) < MaxTestCalls
    /\ LET r == NewTestCall("testCurrentFile", goConfig, isBenchmark, editor, "")
       IN  IF editor = "none" THEN ApplyTest(ShowMessage(Ts, r, NoEditor))
           ELSE IF ~IsTestFile(editor) THEN ApplyTest(ShowMessage(Ts, r, NotTestFile))
           ELSE ApplyTest([Ts EXCEPT !.testCalls = Append(@,
                    [r EXCEPT !.pc = "save", !.testFlags = GetTestFlags(goConfig, "")])])

\* testCurrentPackage.
TestCurrentPackage(goConfig, isBenchmark, editor) ==
    /\ Len(testCalls) < MaxTestCalls
    /\ LET r == NewTestCall("testCurrentPackage", goConfig, isBenchmark, editor, "")
           cover == MakeCoverData(goConfig, "coverOnTestPackage", "")
           k == Len(testCalls) + 1
           testConfig == [goConfig |-> goConfig, dir |-> Dirname(editor),
                          flags |-> cover.testFlags, isBenchmark |-> isBenchmark]
           T1 == [Ts EXCEPT !.testCalls = Append(@,
                    [r EXCEPT !.tmpCoverPath = cover.tmpCoverPath,
                              !.testFlags = cover.testFlags])]
       IN  IF editor = "none" THEN ApplyTest(ShowMessage(Ts, r, NoEditor))
           ELSE ApplyTest(RememberAndRun(T1, k, "testCurrentPackage", testConfig))

\* testWorkspace: rootPath is vscode.workspace.rootPath and folder the
\* workspace folder of the active editor, "" when there is none.
TestWorkspace(goConfig, rootPath, folder) ==
    /\ Len(testCalls) < MaxTestCalls
    /\ LET r == NewTestCall("testWorkspace", goConfig, FALSE, "none", "")
           k == Len(testCalls) + 1
           dir == IF folder # "" THEN folder ELSE rootPath
           testConfig == [goConfig |-> goConfig, dir |-> dir,
                          flags |-> GetTestFlags(goConfig, ""),
                          includeSubDirectories |-> TRUE]
           T1 == [Ts EXCEPT !.testCalls = Append(@,
                    [r EXCEPT !.testFlags = GetTestFlags(goConfig, "")])]
       IN  IF dir = "" THEN ApplyTest(ShowMessage(Ts, r, NoWorkspace))
           ELSE ApplyTest(RememberAndRun(T1, k, "testWorkspace", testConfig))

TestPreviousWithoutCheck(T, k) == GoTest(T, k, "testPrevious", T.lastTestConfig)

\* The body of testPrevious.
TestPreviousBody(T, k) ==
    IF T.lastTestConfig = UnsetConfig
    THEN [T EXCEPT !.testCalls[k] = Returned([@ EXCEPT !.message = NoRecentTest])]
    ELSE GoTest(T, k, "testPrevious", T.lastTestConfig)

TestPrevious ==
    /\ Len(testCalls) < MaxTestCalls
    /\ LET r == NewTestCall("testPrevious", [none |-> TRUE], FALSE, "none", "")
           k == Len(testCalls) + 1
       IN  ApplyTest(TestPreviousBody([Ts EXCEPT !.testCalls = Append(@, r)], k))

\* editor.document.save() settles in testAtCursor or testCurrentFile.
SaveSettles(k, ok) ==
    /\ testCalls[k].pc = "save"
    /\ ApplyTest([Ts EXCEPT !.testCalls[k] =
          IF ok THEN [@ EXCEPT !.pc = "getFunctions"]
          ELSE Returned([@ EXCEPT !.logged = TRUE])])

\* The functions of testConfig in testAtCursor.
TestConfigFns(r, fns, name) ==
    <<name>> \o (IF ~r.isBenchmark /\ ExtractInstanceTestName(name)
                 THEN Names(FindAllTestSuiteRuns(fns))
                 ELSE <<>>)

\* getFunctions(editor.document, null) settles in testAtCursor or
\* testCurrentFile.
GetFunctionsSettles(k, ok, fns) ==
    /\ testCalls[k].pc = "getFunctions"
    /\ LET r == testCalls[k]
           name == IF r.functionName # "" THEN r.functionName ELSE FunctionAtCursor(fns)
       IN  IF ~ok
           THEN ApplyTest([Ts EXCEPT !.testCalls[k] = Returned([r EXCEPT !.logged = TRUE])])
           ELSE IF r.cmd = "testCurrentFile"
           THEN ApplyTest(RememberAndRun(Ts, k, r.cmd,
                    [goConfig |-> r.goConfig, dir |-> Dirname(r.editor),
                     flags |-> GetTestFlags(r.goConfig, ""),
                     functions |-> Names(fns), isBenchmark |-> r.isBenchmark]))
           ELSE IF name = ""
           THEN ApplyTest([Ts EXCEPT !.testCalls[k] =
                                         Returned([r EXCEPT !.message = NoFunction])])
           ELSE ApplyTest(RememberAndRun(Ts, k, r.cmd,
                    [goConfig |-> r.goConfig, dir |-> Dirname(r.editor),
                     flags |-> r.testFlags,
                     functions |-> TestConfigFns(r, fns, name),
                     isBenchmark |-> r.isBenchmark]))

\* The promise of goTest settles: getCoverage(tmpCoverPath) after a
\* successful run with a cover profile, a console message after a rejection.
GoTestSettles(k, outcome) ==
    /\ testCalls[k].pc = "goTest"
    /\ LET r == testCalls[k]
       IN  ApplyTest([Ts EXCEPT !.testCalls[k] =
             Returned([r EXCEPT
                       !.success = outcome = "success",
                       !.coverage = IF /\ outcome = "success"
                                       /\ r.cmd \in {"testAtCursor", "testCurrentPackage"}
                                       /\ r.tmpCoverPath # ""
                                    THEN r.tmpCoverPath ELSE "",
                       !.logged = outcome = "rejected"])])

NextTest ==
    \/ \E c \in GoConfigs, b \in BOOLEAN, e \in Editors, f \in {"", "TestFoo"} :
          TestAtCursor(c, b, e, f)
    \/ \E c \in PlainGoConfigs, b \in BOOLEAN, e \in Editors : TestCurrentFile(c, b, e)
    \/ \E c \in GoConfigs, b \in BOOLEAN, e \in Editors : TestCurrentPackage(c, b, e)
    \/ \E c \in PlainGoConfigs, root \in {"", "/ws"}, folder \in {"", "/ws/sub"} :
          TestWorkspace(c, root, folder)
    \/ TestPrevious
    \/ \E k \in DOMAIN testCalls, ok \in BOOLEAN : SaveSettles(k, ok)
    \/ \E k \in DOMAIN testCalls, ok \in BOOLEAN, fns \in FunctionLists :
          GetFunctionsSettles(k, ok, fns)
    \/ \E k \in DOMAIN testCalls, o \in {"success", "failure", "rejected"} :
          GoTestSettles(k, o)

SpecTest == Init /\ [][NextTest]_vars

----------------------------------------------------------------------------
\* installTools (goRunTestCodelens.ts 254-448): the promise chain that
\* installs the requested tools with 'go get' and 'go build'.

\* The tools of goTools.ts that the chain tells apart: one with an on-close
\* action, one with a 'mod' suffix, one installed with the '...' wildcard.
ToolDescs ==
    { [name |-> "gopls", importPath |-> "golang.org/x/tools/gopls",
       importPathWithVersion |-> "golang.org/x/tools/gopls@latest",
       modSuffix |-> FALSE, wildcard |-> FALSE, close |-> TRUE],
      [name |-> "gocode-gomod", importPath |-> "github.com/stamblerre/gocode",
       importPathWithVersion |-> "github.com/stamblerre/gocode@latest",
       modSuffix |-> TRUE, wildcard |-> FALSE, close |-> FALSE],
      [name |-> "staticcheck", importPath |-> "honnef.co/go/tools/...",
       importPathWithVersion |-> "honnef.co/go/tools/...@latest",
       modSuffix |-> FALSE, wildcard |-> TRUE, close |-> FALSE] }

\* The lists of distinct tools installTools is called with.
ToolLists ==
    {m \in UNION {[1..n -> ToolDescs] : n \in 0..MaxTools} :
        \A a, b \in DOMAIN m : a # b => m[a] # m[b]}

GoVersions == {"1.10", "1.12"}

\* goVersion.lt('1.11')
Lt111(goVersion) == goVersion = "1.10"

\* hasModSuffix(tool)
HasModSuffix(tool) == tool.modSuffix

\* disableModulesForWildcard(tool, goVersion), for Go versions below 1.13
DisableModulesForWildcard(tool, goVersion) == tool.wildcard

\* getImportPath(tool, goVersion)
GetImportPath(tool, goVersion) == tool.importPath

\* getImportPathWithVersion(tool, tool.version, goVersion)
GetImportPathWithVersion(tool, goVersion) == tool.importPathWithVersion

\* containsString(missing, name)
ContainsString(missing, name) == \E n \in DOMAIN missing : missing[n].name = name

\* const modulesOffForTool = modulesOff || disableModulesForWildcard(tool, goVersion)
ModulesOffForTool(C, tool) ==
    Lt111(C.goVersion) \/ DisableModulesForWildcard(tool, C.goVersion)

\* The import path passed to 'go get'.
ImportPathArg(C, tool) ==
    IF ModulesOffForTool(C, tool)
    THEN <<GetImportPath(tool, C.goVersion)>>
    ELSE <<GetImportPathWithVersion(tool, C.goVersion)>>

\* The entries of the result list: null, or the failure reason of a tool.
Null == [null |-> TRUE]
FailureReason(tool) == [null |-> FALSE, tool |-> tool.name]

\* What a 'go get' or 'go build' process can report to its callback.
ProcOutcomes ==
    { [err |-> FALSE, layout |-> FALSE],
      [err |-> TRUE, layout |-> FALSE],
      [err |-> TRUE, layout |-> TRUE],
      [err |-> FALSE, layout |-> TRUE] }

\* cp.execFile(goRuntimePath, args, opts, handler): the child gets the
\* environment the shared envForTools object holds at this moment.
ChainExecFile(C, i, cmd, args, handler) ==
    [C EXCEPT !.procs = Append(@,
        [tool |-> i, cmd |-> cmd, args |-> args, env |-> C.env,
         handler |-> handler, state |-> "running", err |-> FALSE,
         layout |-> FALSE])]

\* The last .then of the chain: the summary written to the output channel.
Finish(C) ==
    LET failures == SelectSeq(C.sofar, LAMBDA x : ~x.null)
    IN  IF Len(failures) = 0
        THEN [C EXCEPT !.pc = "done", !.out = "All tools successfully installed.",
                       !.restarted = ContainsString(C.missing, "gopls")]
        ELSE [C EXCEPT !.pc = "done", !.out = "tools failed to install.",
                       !.failed = Len(failures)]

\* The arguments of 'go get' and the execFile call that runs it.
SpawnGet(C, i) ==
    LET tool == C.missing[i]
        args == <<"get", "-v">>
                \o (IF ModulesOffForTool(C, tool) THEN <<"-u">> ELSE <<>>)
                \o (IF HasModSuffix(tool) THEN <<"-d">> ELSE <<>>)
                \o ImportPathArg(C, tool)
    IN  ChainExecFile([C EXCEPT !.steps[i].pc = "run"], i, "get", args, "first")

SetModuleModeOnOnly(C, off) ==
    IF off THEN C ELSE [C EXCEPT !.env = "on", !.goMod = TRUE]

\* envForTools['GO111MODULE'] is set for the tool, and in module mode the
\* temporary go.mod file is written.
SetModuleMode(C, off) ==
    IF off THEN [C EXCEPT !.env = "off"] ELSE [C EXCEPT !.env = "on", !.goMod = TRUE]

\* The promise executor of the step of tool i, up to its first await or to
\* the execFile call.
ToolStep(C, i) ==
    LET tool == C.missing[i]
        off == ModulesOffForTool(C, tool)
        C1 == [SetModuleMode(C, off) EXCEPT !.steps = Append(@,
                 [pc |-> "close", tmpGoModFile |-> ~off, close |-> "none",
                  resolves |-> 0, report |-> "none", goModAtResult |-> FALSE])]
    IN  IF tool.close THEN C1 ELSE SpawnGet(C1, i)

\* resolve([...sofar, x]) of the step of tool i, and the next link of the
\* chain, which runs before any other event.
Resolve(C, i, x) ==
    IF C.steps[i].resolves > 0
    THEN [C EXCEPT !.steps[i].resolves = @ + 1]
    ELSE LET C1 == [C EXCEPT !.sofar = Append(@, x),
                             !.steps[i].resolves = 1,
                             !.steps[i].pc = "done",
                             !.steps[i].goModAtResult = C.goMod]
         IN  IF i < Len(C.missing) THEN ToolStep(C1, i + 1) ELSE Finish(C1)

CallbackHidesFailure(C, i, x) ==
    LET C1 == IF C.steps[i].tmpGoModFile /\ C.goMod THEN [C EXCEPT !.goMod = FALSE] ELSE C
    IN  IF x.err
        THEN Resolve([C1 EXCEPT !.steps[i].report = "FAILED"], i, Null)
        ELSE Resolve([C1 EXCEPT !.steps[i].report = "SUCCEEDED"], i, Null)

\* const callback = (err, stdout, stderr) => ...
Callback(C, i, x) ==
    LET C1 == IF C.steps[i].tmpGoModFile /\ C.goMod THEN [C EXCEPT !.goMod = FALSE] ELSE C
    IN  IF x.err
        THEN Resolve([C1 EXCEPT !.steps[i].report = "FAILED"], i,
                     FailureReason(C.missing[i]))
        ELSE Resolve([C1 EXCEPT !.steps[i].report = "SUCCEEDED"], i, Null)

\* The 'go build -o <bin>/<tool>' of a tool with a 'mod' suffix.
SpawnBuild(C, i) ==
    ChainExecFile(C, i, "build",
        <<"build", "-o", C.missing[i].name, GetImportPath(C.missing[i], C.goVersion)>>,
        "callback")

GetCallbackResolvesEarly(C, p, x) ==
    LET i == C.procs[p].tool
    IN  IF x.layout
        THEN ChainExecFile(C, i, "get", C.procs[p].args, "callback")
        ELSE IF ~x.err /\ HasModSuffix(C.missing[i])
        THEN Callback(SpawnBuild(C, i), i, x)
        ELSE Callback(C, i, x)

GetCallbackRetriesAgain(C, p, x) ==
    LET i == C.procs[p].tool
    IN  IF x.layout
        THEN ChainExecFile(C, i, "get", C.procs[p].args, "first")
        ELSE IF ~x.err /\ HasModSuffix(C.missing[i])
        THEN SpawnBuild(C, i)
        ELSE Callback(C, i, x)

\* The callback of the first 'go get' of a tool.
GetCallback(C, p, x) ==
    LET i == C.procs[p].tool
    IN  IF x.layout
        THEN ChainExecFile(C, i, "get", C.procs[p].args, "callback")
        ELSE IF ~x.err /\ HasModSuffix(C.missing[i])
        THEN SpawnBuild(C, i)
        ELSE Callback(C, i, x)

\* installTools(missing, goVersion) past its early returns: the chain is
\* built and its first link runs.
InstallTools(missing, goVersion, env) ==
    /\ chain.pc = "none"
    /\ LET C == [NoChain EXCEPT !.pc = "chain", !.missing = missing,
                                !.goVersion = goVersion, !.env = env]
       IN  chain' = IF missing = <<>> THEN Finish(C) ELSE ToolStep(C, 1)
    /\ UNCHANGED <<toolVars, installVars, testVars, offerVars>>

\* await tool.close() returns its error message, or none.
CloseSettles(errMsg) ==
    /\ chain.pc = "chain"
    /\ chain.steps # <<>>
    /\ LET i == Len(chain.steps)
       IN  /\ chain.steps[i].pc = "close"
           /\ chain' = IF errMsg
                       THEN Resolve([chain EXCEPT !.steps[i].close = "error"], i, Null)
                       ELSE SpawnGet([chain EXCEPT !.steps[i].close = "ok"], i)
    /\ UNCHANGED <<toolVars, installVars, testVars, offerVars>>

\* A 'go get' or 'go build' process ends and execFile calls its handler.
ChainProcessEnds(p, x) ==
    /\ chain.procs[p].state = "running"
    /\ LET C == [chain EXCEPT !.procs[p].state = "ended",
                              !.procs[p].err = x.err,
                              !.procs[p].layout = x.layout]
       IN  chain' = IF chain.procs[p].handler = "first"
                    THEN GetCallback(C, p, x)
                    ELSE Callback(C, chain.procs[p].tool, x)
    /\ UNCHANGED <<toolVars, installVars, testVars, offerVars>>

NextChain ==
    \/ \E m \in ToolLists, v \in GoVersions, e \in {"unset", "on"} :
          InstallTools(m, v, e)
    \/ \E e \in BOOLEAN : CloseSettles(e)
    \/ \E p \in DOMAIN chain.procs, x \in ProcOutcomes : ChainProcessEnds(p, x)

SpecChain == Init /\ [][NextChain]_vars

----------------------------------------------------------------------------
\* offerToInstallTools (goRunTestCodelens.ts 589-653).

MarkOfferedNever(flag) == flag

\* alreadyOfferedToInstallTools = true, before the first await
MarkOffered(flag) == TRUE

\* goVersion.gt('1.10')
Gt110(goVersion) == goVersion = "1.12"

\* offerToInstallTools() up to its first await.  A call keeps, in 'during',
\* where the calls before it stood when it was made.
OfferToInstallTools ==
    /\ Len(offerCalls) < MaxOfferCalls
    /\ IF alreadyOfferedToInstallTools
       THEN /\ offerCalls' = Append(offerCalls,
                   [pc |-> "returned", goVersion |-> "none", missing |-> {},
                    during |-> {offerCalls[j].pc : j \in DOMAIN offerCalls}])
            /\ UNCHANGED alreadyOfferedToInstallTools
       ELSE /\ alreadyOfferedToInstallTools' = MarkOffered(alreadyOfferedToInstallTools)
            /\ offerCalls' = Append(offerCalls,
                   [pc |-> "getGoVersion", goVersion |-> "none", missing |-> {},
                    during |-> {offerCalls[j].pc : j \in DOMAIN offerCalls}])
    /\ UNCHANGED <<offered, toolVars, installVars, testVars, chainVars>>

\* getGoVersion() resolves and getMissingTools(goVersion) is called.
OfferGoVersionResolved(k, goVersion) ==
    /\ offerCalls[k].pc = "getGoVersion"
    /\ offerCalls' = [offerCalls EXCEPT ![k].pc = "getMissingTools",
                                        ![k].goVersion = goVersion]
    /\ offered' = [offered EXCEPT !.checks = @ + 1]
    /\ UNCHANGED <<alreadyOfferedToInstallTools, toolVars, installVars, testVars, chainVars>>

\* getMissingTools resolves: the status bar item and the command for the
\* missing important tools, then the prompt about the Sourcegraph language
\* server.
OfferMissingToolsResolved(k, missing, usingSourceGraph) ==
    /\ offerCalls[k].pc = "getMissingTools"
    /\ LET important == {x \in missing : IsImportant(x)}
           prompt == usingSourceGraph /\ Gt110(offerCalls[k].goVersion)
       IN  /\ offerCalls' = [offerCalls EXCEPT
                                ![k].missing = important,
                                ![k].pc = IF prompt THEN "prompt" ELSE "done"]
           /\ offered' = [offered EXCEPT
                             !.statusItems = IF important # {} THEN @ + 1 ELSE @,
                             !.commands = IF important # {} THEN @ + 1 ELSE @,
                             !.prompts = IF prompt THEN @ + 1 ELSE @]
    /\ UNCHANGED <<alreadyOfferedToInstallTools, toolVars, installVars, testVars, chainVars>>

\* The user answers the language-server prompt, or dismisses it.
OfferPromptAnswered(k, selected) ==
    /\ offerCalls[k].pc = "prompt"
    /\ offerCalls' = [offerCalls EXCEPT ![k].pc =
                         IF selected = "Install" THEN "installTools" ELSE "done"]
    /\ UNCHANGED <<alreadyOfferedToInstallTools, offered, toolVars, installVars,
                   testVars, chainVars>>

\* installTools([getTool('gopls')], goVersion) resolves.
OfferInstallToolsDone(k) ==
    /\ offerCalls[k].pc = "installTools"
    /\ offerCalls' = [offerCalls EXCEPT ![k].pc = "done"]
    /\ UNCHANGED <<alreadyOfferedToInstallTools, offered, toolVars, installVars,
                   testVars, chainVars>>

NextOffer ==
    \/ OfferToInstallTools
    \/ \E k \in DOMAIN offerCalls, v \in GoVersions : OfferGoVersionResolved(k, v)
    \/ \E k \in DOMAIN offerCalls, m \in SUBSET Tools, sg \in BOOLEAN :
          OfferMissingToolsResolved(k, m, sg)
    \/ \E k \in DOMAIN offerCalls :
          \E sel \in {"Install", "Disable language server", "dismissed"} :
              OfferPromptAnswered(k, sel)
    \/ \E k \in DOMAIN offerCalls : OfferInstallToolsDone(k)

SpecOffer == Init /\ [][NextOffer]_vars

----------------------------------------------------------------------------
\* Properties of the tool invocations.

Invs == DOMAIN inv

TimerKills(r) == {k \in 1..Len(r.kills) : r.kills[k].by = "timer"}

\* The process was running when the timer fired: the first kill is the timer's
\* and it ended the process.
KilledByTimer(r) ==
    r.proc = "killed" /\ r.kills # <<>> /\ r.kills[1].by = "timer"

\* The process was running when the cancellation listener ran.
KilledByCancel(r) ==
    r.proc = "killed" /\ r.kills # <<>> /\ r.kills[1].by = "cancel"

\* C1: an invocation whose timer has fired has had killTree called with its
\* process id by the timer, and its promise is rejected with the Timeout
\* error, whatever happens afterwards.
C1_TimeoutKillsAndRejects ==
    \A i \in Invs :
        inv[i].timer = "fired" =>
            /\ inv[i].promise.kind = "Timeout"
            /\ \E k \in TimerKills(inv[i]) : inv[i].kills[k].pid

\* C1 witness: the timer fired on a running process, and the exit callback of
\* the killed process has run since.
C1_Witness ==
    \E i \in Invs :
        /\ inv[i].timer = "fired"
        /\ KilledByTimer(inv[i])
        /\ inv[i].cb = "done"

\* C2: once the cancellation listener of an invocation has run, its timer is
\* no longer armed and never fires: no Timeout result and no kill by the timer
\* appear afterwards.
C2_CancelClearsTimer ==
    [][\A i \in Invs :
          inv[i].listener = "ran" =>
              /\ inv[i].timer # "armed"
              /\ inv'[i].timer = inv[i].timer
              /\ TimerKills(inv'[i]) = TimerKills(inv[i])
              /\ (inv'[i].promise.kind = "Timeout" => inv[i].promise.kind = "Timeout")]_vars

\* C2 witness: the listener cleared an armed timer and killed the running
\* process, and the exit callback has run since.
C2_Witness ==
    \E i \in Invs :
        /\ inv[i].listener = "ran"
        /\ KilledByCancel(inv[i])
        /\ inv[i].timer = "cleared"
        /\ inv[i].cb = "done"

\* C3: when the cancellation listener killed the running process, the outcome
\* the invocation delivers is a Cancelled outcome.
C3_CancelledOutcome ==
    \A i \in Invs :
        (KilledByCancel(inv[i]) /\ inv[i].cb # "pending") =>
            inv[i].promise.kind = "Cancelled"

\* C4: killTree is called at most once per invocation and no handler throws.
C4_KillAtMostOnce ==
    \A i \in Invs : Len(inv[i].kills) <= 1 /\ inv[i].faults = 0

\* C5: an invocation whose process exited by itself, whose callback has run
\* without starting a retry or a fallback, with no timeout and no
\* cancellation, has settled exactly once.
C5_ExactlyOneOutcome ==
    \A i \in Invs :
        (/\ inv[i].proc = "exited"
         /\ inv[i].cb # "pending"
         /\ inv[i].timer # "fired"
         /\ inv[i].call \notin cancelled
         /\ ~inv[i].pnull
         /\ inv[i].fallback = "none") =>
            /\ inv[i].promise.kind \in ValueKinds \cup FailureKinds
            /\ inv[i].settles = 1

\* The argument list with a leading '-ignore' and its folder list removed.
WithoutIgnore(args) ==
    IF Len(args) >= 2 /\ args[1] = "-ignore"
    THEN SubSeq(args, 3, Len(args))
    ELSE args

\* Call i of a getWorkspaceSymbols failed with the unsupported -ignore flag.
FailedOnIgnoreFlag(i) ==
    /\ inv[i].cb = "done"
    /\ inv[i].exit.err = "fail"
    /\ StartsWith(inv[i].exit.stderr, FlagIgnore)
    /\ inv[i].promise.kind = "Error"

\* getWorkspaceSymbols g has issued retry h: same number of calls, each with
\* the original arguments minus '-ignore' and its folder list, path and query
\* unchanged, and g's promise follows h's.
RetriedWithoutIgnore(g) ==
    LET h == gws[g].retry
    IN  /\ h # 0
        /\ Len(gws[h].invs) = Len(gws[g].invs)
        /\ \A k \in 1..Len(gws[g].invs) :
               LET a == inv[gws[g].invs[k]].args
                   b == inv[gws[h].invs[k]].args
               IN  /\ b = WithoutIgnore(a)
                   /\ "-ignore" \notin {b[n] : n \in 1..Len(b)}
                   /\ SubSeq(b, Len(b) - 1, Len(b)) = SubSeq(a, Len(a) - 1, Len(a))
        /\ gws[g].promise = gws[h].promise

C7_AtMostOneRetry ==
    \A g \in DOMAIN gws : gws[g].parent # 0 => gws[g].retry = 0

\* C8: one runGoOutline call spawns go-outline at most twice.
C8_AtMostTwoSpawns ==
    Cardinality({i \in Invs : inv[i].tool = "go-outline"}) <= 2

\* C9: an invocation whose spawn failed with ENOENT has triggered the
\* missing-tool prompt once its callback has run, and killTree is never
\* called for it.
C9_NotFoundNoKill ==
    \A i \in Invs :
        inv[i].proc = "enoent" =>
            /\ inv[i].kills = <<>>
            /\ inv[i].cb # "pending" =>
                   [kind |-> "missing", tool |-> inv[i].tool] \in prompts

\* C10: when the process exited successfully with output that is not JSON and
\* the callback has run, the promise is rejected and the callback did not
\* throw.
C10_DecodeFailureRejects ==
    \A i \in Invs :
        (/\ inv[i].proc = "exited"
         /\ inv[i].exit.err = "none"
         /\ ~JsonParse(inv[i].exit.stdout).ok
         /\ inv[i].cb # "pending") =>
            /\ inv[i].promise.kind \in FailureKinds
            /\ inv[i].cb # "threw"

\* The process of go-symbols or go-outline invocation i exited by itself with
\* status 0 and JSON on stdout, its callback has run, its timer has not fired
\* and its token has not been cancelled.
ExitedWithJson(i) ==
    /\ inv[i].tool \in {"go-symbols", "go-outline"}
    /\ inv[i].proc = "exited"
    /\ inv[i].cb # "pending"
    /\ inv[i].exit.err = "none"
    /\ JsonParse(inv[i].exit.stdout).ok
    /\ inv[i].timer # "fired"
    /\ inv[i].call \notin cancelled

C12_FailuresReachCaller ==
    \A g \in DOMAIN gws :
        (/\ gws[g].first # 0
         /\ ~StartsWith(inv[gws[g].first].promise.data, FlagIgnore)) =>
            gws[g].promise.kind \in FailureKinds

\* Invocation i is outstanding: its execFile callback has not run yet.
Outstanding(i) == inv[i].cb = "pending"

\* C13: a step other than the cancellation of the shared token (the exit of
\* a process, an execFile callback, a timeout) that changes one outstanding
\* invocation leaves the kills, the timer, the process and the promise of
\* every other outstanding invocation as they were.
C13_InvocationsIndependent ==
    [][cancelled' = cancelled =>
          \A i, j \in Invs :
              (i # j /\ Outstanding(i) /\ Outstanding(j) /\ inv'[i] # inv[i]) =>
                  /\ inv'[j].kills = inv[j].kills
                  /\ inv'[j].timer = inv[j].timer
                  /\ inv'[j].proc = inv[j].proc
                  /\ inv'[j].promise = inv[j].promise]_vars

\* C13 witness: of the two go-symbols calls of one getWorkspaceSymbols one has
\* timed out and was killed, and the other is still running with its timer
\* armed and its promise pending.
C13_Witness ==
    \E i, j \in Invs :
        /\ i # j
        /\ inv[i].owner = inv[j].owner
        /\ inv[i].tool = "go-symbols" /\ inv[j].tool = "go-symbols"
        /\ KilledByTimer(inv[i])
        /\ inv[i].promise.kind = "Timeout"
        /\ inv[j].proc = "running"
        /\ inv[j].timer = "armed"
        /\ inv[j].kills = <<>>
        /\ inv[j].promise = Pending

\* C14: once the promise of an invocation has been settled by the execFile
\* callback of a process that exited by itself, killTree is not called for
\* that invocation any more.
C14_NoKillAfterExit ==
    [][\A i \in Invs :
          (/\ inv[i].proc = "exited"
           /\ inv[i].cb = "done"
           /\ inv[i].promise.kind # "pending") =>
              inv'[i].kills = inv[i].kills]_vars

Args(i) == {inv[i].args[n] : n \in 1..Len(inv[i].args)}

OutlineInvs == {i \in Invs : inv[i].tool = "go-outline"}

\* C15: every go-outline and guru process that was given a document and has
\* a process id had the file archive written to its stdin once, and every
\* other process had nothing written; go-outline is passed '-modified'
\* exactly when a document is supplied; provideTypeDefinition spawns guru at
\* most once and each runGoOutline call spawns one process (one for the call
\* of the provider and one per retry started by a callback).
C15_SpawnOnceStdinOnce ==
    /\ \A i \in Invs :
           inv[i].tool \in {"go-outline", "guru"} =>
               /\ (inv[i].document = "doc" /\ inv[i].pid) => inv[i].stdin = 1
               /\ (inv[i].document # "doc" \/ ~inv[i].pid) => inv[i].stdin = 0
               /\ inv[i].tool = "go-outline" =>
                      ("-modified" \in Args(i) <=> inv[i].document = "doc")
    /\ Cardinality({i \in Invs : inv[i].tool = "guru"}) <= 1
    /\ OutlineInvs # {} =>
           Cardinality(OutlineInvs) = 1 + Cardinality({i \in OutlineInvs : inv[i].pnull})

\* C15 witness: a runGoOutline call with a document passed '-modified' and
\* wrote its stdin; go-outline rejected a flag, and the retry made after the
\* document was dropped passes no '-modified' and writes nothing.
C15_Witness ==
    \E i, j \in OutlineInvs :
        /\ inv[j].owner = i
        /\ inv[i].document = "doc" /\ inv[i].stdin = 1 /\ "-modified" \in Args(i)
        /\ inv[j].document = "null" /\ inv[j].stdin = 0 /\ "-modified" \notin Args(j)

IsPrefix(a, b) == Len(a) <= Len(b) /\ SubSeq(b, 1, Len(a)) = a

\* C16: a promptForMissingTool call that started after the user dismissed the
\* install prompt of its tool, and a promptForUpdatingTool call that started
\* after the user dismissed the update prompt of its tool, has returned
\* without showing a prompt or a message and without installing anything;
\* entries of declinedInstalls and declinedUpdates are never removed.
C16_DeclinedStaysDeclined ==
    /\ [](\A k \in DOMAIN promptCalls :
            promptCalls[k].afterDismissal =>
                /\ promptCalls[k].pc = "done"
                /\ ~promptCalls[k].shown
                /\ ~promptCalls[k].message
                /\ promptCalls[k].installs = {})
    /\ [][/\ IsPrefix(declinedInstalls, declinedInstalls')
          /\ IsPrefix(declinedUpdates, declinedUpdates')]_vars

\* C16 witness: the install prompt of a tool was shown and dismissed, and a
\* promptForMissingTool call for that tool made afterwards has returned.
C16_Witness ==
    \E d, k \in DOMAIN promptCalls :
        /\ d < k
        /\ promptCalls[d].fn = "missing"
        /\ promptCalls[d].shown
        /\ promptCalls[d].answer = "dismissed"
        /\ promptCalls[k].fn = "missing"
        /\ promptCalls[k].tool = promptCalls[d].tool
        /\ promptCalls[k].afterDismissal
        /\ promptCalls[k].pc = "done"

\* C17: lastTestConfig is unset while none of testAtCursor,
\* testCurrentPackage, testWorkspace and testCurrentFile has called goTest,
\* and otherwise it is the TestConfig passed to the most recent goTest call
\* made by one of them.
C17_LastTestConfigIsLastRun ==
    lastTestConfig = goTestCalls.lastByCommand.config

\* C17 witness: testAtCursor was invoked first, testCurrentPackage ran its
\* test while testAtCursor was waiting for the save or the function list,
\* and testAtCursor then ran its own TestConfig, which is the one
\* remembered.
C17_Witness ==
    /\ goTestCalls.count = 2
    /\ Len(testCalls) = 2
    /\ testCalls[1].cmd = "testAtCursor"
    /\ testCalls[2].cmd = "testCurrentPackage"
    /\ goTestCalls.last.by = "testAtCursor"
    /\ "functions" \in DOMAIN lastTestConfig
    /\ lastTestConfig = goTestCalls.last.config

\* C18: a testPrevious call leaves lastTestConfig as it is; when a test has
\* been executed it calls goTest once, with lastTestConfig, and shows no
\* message; when none has been executed it shows 'No test has been recently
\* executed.' and calls nothing.  The settling of its goTest promise does not
\* change lastTestConfig either.
C18_TestPreviousReruns ==
    [][/\ (/\ Len(testCalls') = Len(testCalls) + 1
           /\ testCalls'[Len(testCalls')].cmd = "testPrevious") =>
              /\ lastTestConfig' = lastTestConfig
              /\ IF lastTestConfig = UnsetConfig
                 THEN /\ goTestCalls' = goTestCalls
                      /\ testCalls'[Len(testCalls')].message = NoRecentTest
                      /\ testCalls'[Len(testCalls')].pc = "done"
                 ELSE /\ goTestCalls'.count = goTestCalls.count + 1
                      /\ goTestCalls'.last =
                             [by |-> "testPrevious", config |-> lastTestConfig]
                      /\ testCalls'[Len(testCalls')].message = ""
       /\ \A k \in DOMAIN testCalls :
              (testCalls[k].cmd = "testPrevious" /\ testCalls'[k] # testCalls[k]) =>
                  lastTestConfig' = lastTestConfig]_vars

\* C18 witness: a test was run by a command and testPrevious has run the
\* remembered TestConfig again.
C18_Witness ==
    /\ goTestCalls.count = 2
    /\ goTestCalls.lastByCommand.by # "none"
    /\ goTestCalls.last = [by |-> "testPrevious", config |-> goTestCalls.lastByCommand.config]
    /\ lastTestConfig = goTestCalls.last.config
    /\ testCalls[2].cmd = "testPrevious"
    /\ testCalls[2].pc = "done"

\* Nothing more can happen for the go-outline processes: every execFile
\* callback has run and no timer is armed.
OutlineQuiescent ==
    \A j \in OutlineInvs : inv[j].cb # "pending" /\ inv[j].timer # "armed"

\* C20: once every go-outline process of a runGoOutline call has ended and
\* been reported and no timer is left armed, the promise returned to the
\* caller of runGoOutline is settled, also when a retry was started.
C20_OutlineSettles ==
    \A i \in OutlineInvs :
        (inv[i].owner = 0 /\ OutlineQuiescent) => inv[i].promise.kind # "pending"

\* The guru invocations of provideTypeDefinition.
GuruInvs == {i \in DOMAIN inv : inv[i].tool = "guru"}

\* C21: once the guru process of a provideTypeDefinition call has been
\* reported to its callback, no timer is armed and the fallback
\* definitionLocation (if one was started) has settled, the promise returned
\* by provideTypeDefinition is settled: every call that spawned guru settles,
\* also when the fallback finds no definition, reports a missing tool or fails.
C21_TypeDefinitionSettles ==
    \A i \in GuruInvs :
        (inv[i].cb # "pending" /\ inv[i].timer # "armed" /\ inv[i].fallback # "pending")
            => inv[i].promise.kind # "pending"

\* The go-outline invocations started by the retry branch of an earlier one.
OutlineRetries == {j \in OutlineInvs : inv[j].owner # 0}

\* C22: when the cancellation token fires after runGoOutline has started its
\* flag-downgrade retry, the listener of the retry kills the retry's process
\* and the listener registered by the earlier attempt raises no fault: it
\* does not dereference the process handle that the retry branch set to null.
C22_CancelAfterRetry ==
    \A j \in OutlineRetries :
        (inv[j].listener = "ran" /\ inv[j].call \in cancelled) =>
            /\ \E n \in DOMAIN inv[j].kills : inv[j].kills[n].by = "cancel"
            /\ inv[inv[j].owner].faults = 0

\* C23: no step of runGoOutline, the retry branch included, changes the
\* options object of its caller: importsOption and document keep the values
\* the caller passed, so documentSymbols reads them unchanged afterwards.
C23_OptionsUnchanged ==
    [][\A c \in DOMAIN calls :
          calls[c].kind = "outline" => calls'[c].opts = calls[c].opts]_vars

----------------------------------------------------------------------------
\* Properties of installTools.

\* The processes spawned for tool i of the installTools call.
ProcsOf(i) == {p \in DOMAIN chain.procs : chain.procs[p].tool = i}

RunningProcs == {p \in DOMAIN chain.procs : chain.procs[p].state = "running"}

\* C24: installTools runs the tools one after another in list order: at most
\* one 'go get' or 'go build' process of the call is running at any moment,
\* and a process of a tool exists only when the results of all tools before
\* it have been recorded.
C24_OneToolAtATime ==
    /\ Cardinality(RunningProcs) <= 1
    /\ \A p \in DOMAIN chain.procs : chain.procs[p].tool <= Len(chain.sofar) + 1
    /\ \A p, q \in DOMAIN chain.procs : p < q => chain.procs[p].tool <= chain.procs[q].tool

\* The second tool's process is running after the first tool failed.
C24_Witness ==
    /\ Len(chain.missing) >= 2
    /\ \E p \in RunningProcs : chain.procs[p].tool = 2
    /\ ProcsOf(1) # {}
    /\ \A p \in ProcsOf(1) : chain.procs[p].state = "ended"
    /\ Len(chain.sofar) = 1
    /\ ~chain.sofar[1].null

\* The process of tool i that ended last.
LastProc(i) == CHOOSE p \in ProcsOf(i) : \A q \in ProcsOf(i) : q <= p

\* The tools whose final child process returned an error.
FailedTools ==
    {i \in DOMAIN chain.missing : ProcsOf(i) # {} /\ chain.procs[LastProc(i)].err}

\* C25: when the chain of installTools has finished, the result list holds
\* one entry per requested tool in request order, failed tools included, the
\* step of every tool has resolved exactly once, and the number of failures
\* reported is the number of tools whose final process returned an error.
C25_OneResultPerTool ==
    chain.pc = "done" =>
        /\ Len(chain.sofar) = Len(chain.missing)
        /\ Len(chain.steps) = Len(chain.missing)
        /\ \A i \in DOMAIN chain.missing :
              /\ chain.steps[i].resolves = 1
              /\ chain.sofar[i].null \/ chain.sofar[i].tool = chain.missing[i].name
              /\ chain.sofar[i].null <=> i \notin FailedTools
        /\ chain.failed = Cardinality(FailedTools)
        /\ (chain.out = "All tools successfully installed.") <=> FailedTools = {}

\* The chain has finished with the first tool failed and the tool after it
\* installed.
C25_Witness ==
    /\ chain.pc = "done"
    /\ Len(chain.missing) = 2
    /\ FailedTools = {1}
    /\ ProcsOf(2) # {}
    /\ chain.steps[2].report = "SUCCEEDED"

GetProcs(i) == {p \in ProcsOf(i) : chain.procs[p].cmd = "get"}

\* The first 'go get' of tool i has ended with 'unexpected directory
\* layout:' on its stderr.
HitLayout(i) ==
    /\ ProcsOf(i) # {}
    /\ LET f == CHOOSE p \in ProcsOf(i) : \A q \in ProcsOf(i) : p <= q
       IN  chain.procs[f].state = "ended" /\ chain.procs[f].layout

\* C26: at most two 'go get' processes are spawned per tool; when the first
\* one reports 'unexpected directory layout:' the same command is run once
\* more with the same arguments and environment and nothing else is run for
\* the tool, and the outcome of that second run is the tool's result, also
\* when it reports 'unexpected directory layout:' again.
C26_LayoutRetryOnce ==
    \A i \in DOMAIN chain.missing :
        /\ Cardinality(GetProcs(i)) <= 2
        /\ HitLayout(i) =>
              /\ Cardinality(ProcsOf(i)) = 2
              /\ \A p, q \in ProcsOf(i) :
                    /\ chain.procs[p].cmd = "get"
                    /\ chain.procs[p].args = chain.procs[q].args
                    /\ chain.procs[p].env = chain.procs[q].env
              /\ chain.procs[LastProc(i)].state = "ended" =>
                    /\ chain.steps[i].resolves = 1
                    /\ chain.sofar[i].null <=> ~chain.procs[LastProc(i)].err
        /\ ~HitLayout(i) => Cardinality(GetProcs(i)) <= 1

\* The retry of a tool has reported 'unexpected directory layout:' again.
C26_Witness ==
    \E i \in DOMAIN chain.missing :
        /\ HitLayout(i)
        /\ chain.procs[LastProc(i)].state = "ended"
        /\ chain.procs[LastProc(i)].layout
        /\ chain.steps[i].report = "FAILED"

\* C27: when the step of a tool installed in module mode records its
\* result, the temporary go.mod file written for it no longer exists, on
\* every path of the step, the tool.close() error path included.
C27_GoModRemoved ==
    \A i \in DOMAIN chain.steps :
        (chain.steps[i].tmpGoModFile /\ chain.steps[i].resolves > 0) =>
            ~chain.steps[i].goModAtResult

\* C28: a tool with a 'mod' suffix is reported as SUCCEEDED only when its
\* 'go get -d' succeeded and a 'go build -o' for it ran afterwards and
\* succeeded, also when the first 'go get' was retried.
C28_ModToolBuilt ==
    \A i \in DOMAIN chain.steps :
        (HasModSuffix(chain.missing[i]) /\ chain.steps[i].report = "SUCCEEDED") =>
            /\ \E p \in GetProcs(i) : ~chain.procs[p].err
            /\ chain.procs[LastProc(i)].cmd = "build"
            /\ ~chain.procs[LastProc(i)].err

\* C29: 'All tools successfully installed.' is printed, and the language
\* server restarted, only when for every requested tool an install process
\* ran and its last process ended without error; a tool that tool.close()
\* stopped from being installed prevents the message.
C29_AllInstalledMeansAll ==
    (chain.out = "All tools successfully installed." \/ chain.restarted) =>
        \A i \in DOMAIN chain.missing :
            /\ chain.steps[i].close # "error"
            /\ ProcsOf(i) # {}
            /\ ~chain.procs[LastProc(i)].err

\* C30: every 'go get' and 'go build' process of a tool runs with
\* GO111MODULE set to that tool's own mode: 'off' when the Go version is
\* below 1.11 or the tool is installed with the wildcard, 'on' otherwise,
\* whatever the shared environment object held for the tools before it.
C30_ModuleModePerTool ==
    \A p \in DOMAIN chain.procs :
        LET tool == chain.missing[chain.procs[p].tool]
        IN  chain.procs[p].env =
                IF Lt111(chain.goVersion) \/ tool.wildcard THEN "off" ELSE "on"

\* A wildcard tool's process runs after a module-mode tool's 'go build'.
C30_Witness ==
    \E p, q \in DOMAIN chain.procs :
        /\ p < q
        /\ chain.procs[p].cmd = "build"
        /\ chain.procs[p].env = "on"
        /\ chain.procs[q].env = "off"
        /\ chain.missing[chain.procs[q].tool].wildcard

----------------------------------------------------------------------------
\* Properties of the install prompts.

\* The calls of promptForMissingTool for the tool whose prompt is open.
OpenInstallPrompts(tool) ==
    {k \in DOMAIN promptCalls :
        /\ promptCalls[k].fn = "missing"
        /\ promptCalls[k].tool = tool
        /\ promptCalls[k].pc = "prompt"}

\* C32: for every tool at most one install prompt is open at any time and
\* the tool occurs at most once in declinedInstalls, also when
\* promptForMissingTool is called again for the tool before the first prompt
\* has been answered.
C32_OnePromptPerTool ==
    \A tool \in Tools :
        /\ Cardinality(OpenInstallPrompts(tool)) <= 1
        /\ Cardinality({n \in DOMAIN declinedInstalls : declinedInstalls[n] = tool}) <= 1

\* The calls of offerToInstallTools that went past the test of the flag.
OfferBodies == {k \in DOMAIN offerCalls : offerCalls[k].pc # "returned"}

\* C31: the body of offerToInstallTools runs at most once: the missing-tools
\* check is made, the status bar item shown, the command registered and the
\* language-server prompt shown at most once, and every call after the first
\* has returned without doing anything, also while the first is awaiting.
C31_OfferedOnce ==
    /\ Cardinality(OfferBodies) <= 1
    /\ offered.checks <= 1
    /\ offered.statusItems <= 1
    /\ offered.commands <= 1
    /\ offered.prompts <= 1
    /\ \A k \in DOMAIN offerCalls : k > 1 => offerCalls[k].pc = "returned"

\* A second call was made while the first was awaiting getGoVersion, and the
\* first has since shown the status bar item and the prompt.
C31_Witness ==
    /\ Len(offerCalls) >= 2
    /\ offerCalls[1].pc = "prompt"
    /\ offerCalls[2].pc = "returned"
    /\ "getGoVersion" \in offerCalls[2].during
    /\ offered = [checks |-> 1, statusItems |-> 1, commands |-> 1, prompts |-> 1]

----------------------------------------------------------------------------
\* Properties of the test commands.

\* The messages of the early returns of testAtCursor, testCurrentFile,
\* testCurrentPackage and testWorkspace.
EarlyStops == {NoEditor, NotTestFile, NoFunction, NoWorkspace}

\* Call k stops early in this step.
StopsEarly(k) ==
    /\ k \in DOMAIN testCalls'
    /\ testCalls'[k].message \in EarlyStops
    /\ k \in DOMAIN testCalls => testCalls[k].message = ""

\* C33: when one of testAtCursor, testCurrentFile, testCurrentPackage and
\* testWorkspace stops early (no editor, not a test file, no workspace
\* directory, no test function at the cursor), the step calls goTest for
\* nobody and leaves lastTestConfig as it was, and the call that stopped has
\* returned without ever waiting for goTest.
C33_EarlyStopChangesNothing ==
    /\ [](\A k \in DOMAIN testCalls :
            testCalls[k].message \in EarlyStops =>
                /\ testCalls[k].pc = "done"
                /\ ~testCalls[k].success
                /\ testCalls[k].coverage = "")
    /\ [][\A k \in 1..MaxTestCalls + 1 :
            StopsEarly(k) =>
                /\ lastTestConfig' = lastTestConfig
                /\ goTestCalls' = goTestCalls
                /\ k \in DOMAIN testCalls => testCalls[k].pc # "goTest"]_vars

\* A test was run and remembered, and a later testAtCursor found no test
\* function at the cursor.
C33_Witness ==
    /\ Len(testCalls) = 2
    /\ testCalls[2].cmd = "testAtCursor"
    /\ testCalls[2].message = NoFunction
    /\ goTestCalls.count = 1
    /\ lastTestConfig # UnsetConfig
    /\ lastTestConfig = goTestCalls.last.config

\* The commands that read a cover setting, and the setting each reads.
CoverCommands == {"testAtCursor", "testCurrentPackage"}

CoverSetting(cmd) ==
    IF cmd = "testAtCursor" THEN "coverOnSingleTest" ELSE "coverOnTestPackage"

\* The '-coverprofile=<path>' flags among the test flags.
CoverFlags(flags) ==
    {n \in DOMAIN flags : flags[n] = "-coverprofile=" \o TmpCoverPath}

\* Call k calls goTest in this step.
CallsGoTest(k) ==
    /\ k \in DOMAIN testCalls'
    /\ testCalls'[k].pc = "goTest"
    /\ k \in DOMAIN testCalls => testCalls[k].pc # "goTest"

\* C34: testAtCursor and testCurrentPackage pass '-coverprofile=<tmp path>'
\* to goTest exactly when their cover setting (coverOnSingleTest,
\* coverOnTestPackage) is true, and call getCoverage only after goTest has
\* reported success, only when that setting is true, and with the path of
\* the flag; no other command calls getCoverage.
C34_CoverageAfterSuccess ==
    /\ [](\A k \in DOMAIN testCalls :
            testCalls[k].coverage # "" =>
                /\ testCalls[k].cmd \in CoverCommands
                /\ testCalls[k].success
                /\ testCalls[k].coverage = TmpCoverPath)
    /\ [][\A k \in 1..MaxTestCalls + 1 :
            /\ (CallsGoTest(k) /\ testCalls'[k].cmd \in CoverCommands) =>
                  LET config == goTestCalls'.last.config
                      on == config.goConfig[CoverSetting(testCalls'[k].cmd)]
                  IN  /\ Cardinality(CoverFlags(config.flags)) = IF on THEN 1 ELSE 0
                      /\ testCalls'[k].tmpCoverPath = IF on THEN TmpCoverPath ELSE ""
            /\ (/\ k \in DOMAIN testCalls
                /\ testCalls[k].coverage = ""
                /\ testCalls'[k].coverage # "") =>
                  /\ testCalls[k].pc = "goTest"
                  /\ testCalls[k].tmpCoverPath # ""
                  /\ testCalls'[k].coverage = testCalls[k].tmpCoverPath]_vars

\* testAtCursor has read the cover profile of a successful run, and a
\* testCurrentPackage whose cover setting is off has succeeded without
\* reading one.
C34_Witness ==
    /\ Len(testCalls) = 2
    /\ testCalls[1].cmd = "testAtCursor"
    /\ testCalls[1].coverage = TmpCoverPath
    /\ testCalls[2].cmd = "testCurrentPackage"
    /\ testCalls[2].success
    /\ testCalls[2].coverage = ""
    /\ CoverFlags(goTestCalls.last.config.flags) = {}

====
